---- MODULE Spec2Model ----
(***************************************************************************)
(* State-machine model of the two scraping pipelines of the repository:    *)
(*   src/amazon_product_detail.py    (detail pipeline, one request per ASIN *)
(*                                    with a bounded retry loop)            *)
(*   src/homedepo_product-search.py  (search pipeline, up to 3 pages per    *)
(*                                    keyword)                              *)
(* and of the pure helper truncate_text.                                    *)
(*                                                                          *)
(* Three specifications share the module: SpecDetail, SpecSearch and        *)
(* SpecTruncate.  Each one runs its own program and keeps the variables of  *)
(* the other two at their idle values.                                      *)
(*                                                                          *)
(* Python's None is modelled by the empty sequence and a present value x by *)
(* the one-element sequence <<x>>.  Text is a sequence of one-character     *)
(* strings.                                                                 *)
(***************************************************************************)
EXTENDS Integers, Sequences, FiniteSets, TLC

VARIABLES
    \* ---- detail pipeline: environment, fixed for a run
    env_key,            \* os.getenv('unwrangle.apikey') is a non-empty string
    input_file,         \* None: open() raises; Some(text): the file's content
    LIMIT,              \* module constant LIMIT (3 in the source, any K >= 0 here)
    MAX_RETRIES,        \* module constant MAX_RETRIES (1 in the source, any R >= 1 here)
    \* ---- detail pipeline: program state
    pc,                 \* position of main()
    asin_list,
    i,                  \* enumerate index of the for loop
    success_count,
    failed_asins,
    remaining_credits,  \* None or Some(n)
    out_file,           \* None: no file; Some(lines): lines of OUTPUT_FILE
    attempt,            \* loop variable of fetch_product_data
    product_data,       \* None or Some(dict) returned by fetch_product_data
    reported,           \* None or Some(summary printed at lines 101-113)
    write_error,        \* the except clause of line 115 was taken
    \* ---- detail pipeline: history of the run
    fetched,            \* keys passed to fetch_product_data, in call order
    handed,             \* dicts passed to writer.writerow, in call order
    tries,              \* requests made by the fetch_product_data call under way
    last_outcome,       \* outcome of its latest attempt ("none" before the first)
    waits,              \* retry sleeps of the fetch_product_data call under way
    quota_seen,         \* remaining_credits of the latest successful response carrying one
    requests,           \* number of HTTP requests issued so far
    slept,              \* time slept since the latest request
    last_gap,           \* None, or Some(time slept between the two latest requests)
    \* ---- search pipeline: environment
    s_env_key,          \* os.environ.get("homedepot.apikey") is non-empty
    s_dotenv,           \* "absent" | "no_line" | "has_line": the file .env
    s_keywords_file,    \* None: open() raises; Some(keywords)
    \* ---- search pipeline: program state
    s_pc,
    s_api_key,          \* the module-level api_key is set (truthy)
    keywords,
    kw,                 \* index of the current keyword in keywords
    page,
    first_write,
    total_products,
    s_out,              \* None or Some(lines) of homedepo_search_results.csv
    \* ---- search pipeline: history of the run
    s_requests,         \* every search request with its response, in order
    s_rows,             \* rows produced by save_to_csv in this run, in order
    s_out_before,       \* s_out as it was when the run began
    s_slept,
    s_last_gap,
    s_abort,            \* "no", or where an exception ended the script: "config" | "fetch"
    \* ---- truncate_text
    t_pc,
    t_text,             \* None or Some(text)
    t_result

detail_vars == <<env_key, input_file, LIMIT, MAX_RETRIES, pc, asin_list, i,
                 success_count, failed_asins, remaining_credits, out_file,
                 attempt, product_data, reported, write_error, fetched, handed,
                 tries, last_outcome, waits, quota_seen, requests, slept,
                 last_gap>>

search_vars == <<s_env_key, s_dotenv, s_keywords_file, s_pc, s_api_key, keywords,
                 kw, page, first_write, total_products, s_out, s_requests, s_rows,
                 s_out_before, s_slept, s_last_gap, s_abort>>

text_vars == <<t_pc, t_text, t_result>>

vars == <<detail_vars, search_vars, text_vars>>

None == <<>>

Some(x) == <<x>>

Min(a, b) == IF a <= b THEN a ELSE b

(***************************************************************************)
(* Bounds of the model.                                                     *)
(***************************************************************************)
MaxFileLen == 3

MaxLimit == 1

MaxRetries == 3

MaxKeywordLines == 2

MaxTextLen == 1002

(***************************************************************************)
(* Program constants.                                                       *)
(***************************************************************************)
REQUEST_DELAY == 1

DESCRIPTION_BUDGET == 1000

PAGE_SIZE == 24

MAX_PAGES == 3

CSV_FIELDS ==
    << "asin", "name", "brand", "url", "price", "price_reduced", "rating",
       "review_count", "availability", "category", "bullet_points", "description",
       "product_dimensions", "product_specifications", "product_weight",
       "main_image_url", "whats_in_box", "variant_data" >>

Range(s) == { s[k] : k \in 1..Len(s) }

(***************************************************************************)
(* truncate_text                                                            *)
(***************************************************************************)
\* Variant: the length test is strict.
truncate_text_lt(text, max_length) ==
    IF text = None \/ text[1] = <<>> THEN <<>>
    ELSE IF Len(text[1]) < max_length THEN text[1]
    ELSE SubSeq(text[1], 1, max_length) \o <<".", ".", ".">>

\* Lines 178-186.
truncate_text(text, max_length) ==
    IF text = None \/ text[1] = <<>> THEN <<>>
    ELSE IF Len(text[1]) <= max_length THEN text[1]
    ELSE SubSeq(text[1], 1, max_length) \o <<".", ".", ".">>

(***************************************************************************)
(* Detail pipeline: reading the ASIN list (lines 46-60)                     *)
(***************************************************************************)
Alphabet == {"A", ",", " "}

Whitespace == {" "}

SeqsUpTo(S, n) == UNION { [1..k -> S] : k \in 0..n }

RECURSIVE LStrip(_)
LStrip(s) ==
    IF s = <<>> THEN s
    ELSE IF s[1] \in Whitespace THEN LStrip(Tail(s)) ELSE s

RECURSIVE RStrip(_)
RStrip(s) ==
    IF s = <<>> THEN s
    ELSE IF s[Len(s)] \in Whitespace THEN RStrip(SubSeq(s, 1, Len(s) - 1)) ELSE s

\* str.strip()
Strip(s) == RStrip(LStrip(s))

\* Variant: a comma separates too.
IsSeparatorOrComma(c) == c \in Whitespace \/ c = ","

\* The characters str.split() cuts at.
IsSeparator(c) == c \in Whitespace

RECURSIVE SplitFrom(_, _, _, _)
SplitFrom(s, k, cur, acc) ==
    IF k > Len(s)
    THEN IF cur = <<>> THEN acc ELSE Append(acc, cur)
    ELSE IF IsSeparator(s[k])
         THEN SplitFrom(s, k + 1, <<>>, IF cur = <<>> THEN acc ELSE Append(acc, cur))
         ELSE SplitFrom(s, k + 1, Append(cur, s[k]), acc)

\* str.split() without arguments: the maximal runs of non-whitespace characters.
Split(s) == SplitFrom(s, 1, <<>>, <<>>)

RECURSIVE SelectNonBlank(_)
SelectNonBlank(l) ==
    IF l = <<>> THEN <<>>
    ELSE IF Strip(Head(l)) # <<>>
         THEN <<Strip(Head(l))>> \o SelectNonBlank(Tail(l))
         ELSE SelectNonBlank(Tail(l))

\* f.read().strip().split(), then the comprehension of line 51.
ReadAsins(text) == SelectNonBlank(Split(Strip(text)))

\* Variant: the slice is taken whatever LIMIT is.
ApplyLimitAlways(list, limit) == SubSeq(list, 1, Min(limit, Len(list)))

\* Lines 58-59: asin_list[:LIMIT] when LIMIT > 0.
ApplyLimit(list, limit) ==
    IF limit > 0 THEN SubSeq(list, 1, Min(limit, Len(list))) ELSE list

(***************************************************************************)
(* Detail pipeline: the API response and the row built from it              *)
(* (fetch_product_data, lines 128-164)                                      *)
(***************************************************************************)
\* Keys of the `detail` object that the row is built from.
API_FIELDS ==
    { "name", "brand", "url", "price", "price_reduced", "rating", "total_ratings",
      "in_stock", "categories", "features", "description", "details_table",
      "main_image", "whats_in_box", "variants" }

\* The sets of keys a `detail` object populates, as enumerated by the model.
ProductShapes == { {}, {"name", "description", "details_table"}, API_FIELDS }

CreditValues == { None, Some(1), Some(2) }

\* What one requests.get + response.json() + normalisation can come to:
\*   exception   requests.get or response.json() raises
\*   error_body  the body has no 'detail' key
\*   bad_detail  the body has a 'detail' key and building the row raises
\*   detail      the body has a 'detail' key and the row is built
Responses ==
    [ kind : {"exception", "bad_detail"}, shape : {{}}, credits : {None} ]
    \cup [ kind : {"error_body"}, shape : {{}}, credits : CreditValues ]
    \cup [ kind : {"detail"}, shape : ProductShapes, credits : CreditValues ]

\* product.get(key, default) for a scalar key.
Get(shape, key, default) == IF key \in shape THEN "x" ELSE default

\* Lines 139-158.
BuildRow(asin, shape) ==
    [ f \in Range(CSV_FIELDS) |->
        CASE f = "asin" -> asin
          [] f = "name" -> Get(shape, "name", "")
          [] f = "brand" -> Get(shape, "brand", "")
          [] f = "url" -> Get(shape, "url", "")
          [] f = "price" -> Get(shape, "price", "")
          [] f = "price_reduced" -> Get(shape, "price_reduced", "")
          [] f = "rating" -> Get(shape, "rating", "")
          [] f = "review_count" -> Get(shape, "total_ratings", "")
          [] f = "availability" -> Get(shape, "in_stock", "True")
          [] f = "category" -> Get(shape, "categories", "")
          [] f = "bullet_points" -> Get(shape, "features", "")
          [] f = "description" ->
                truncate_text(IF "description" \in shape THEN Some(<<"d", "e">>)
                              ELSE Some(<<>>), DESCRIPTION_BUDGET)
          [] f = "product_dimensions" ->
                IF "details_table" \in shape THEN "\"x\"" ELSE "\"\""
          [] f = "product_specifications" ->
                IF "details_table" \in shape THEN "[x]" ELSE "{}"
          [] f = "product_weight" -> Get(shape, "details_table", "")
          [] f = "main_image_url" -> Get(shape, "main_image", "")
          [] f = "whats_in_box" -> Get(shape, "whats_in_box", "")
          [] f = "variant_data" -> IF "variants" \in shape THEN "[x]" ELSE "{}" ]

\* Lines 161-162: the quota counter rides on the row as an extra key.
WithCredits(row, credits) ==
    IF credits # None THEN row @@ ("remaining_credits" :> credits[1]) ELSE row

\* The value fetch_product_data returns for a response carrying 'detail'.
FetchedRow(asin, r) == WithCredits(BuildRow(asin, r.shape), r.credits)

\* Variant: the counter stays on the row.
KeepCredits(row) == row

\* Line 82: del product_data['remaining_credits'] (done when the key is present).
DropCredits(row) == [ f \in DOMAIN row \ {"remaining_credits"} |-> row[f] ]

\* Lines 80-81: the quota remembered after a successful fetch.
NextCredits(row, old) ==
    IF "remaining_credits" \in DOMAIN row THEN Some(row["remaining_credits"]) ELSE old

\* csv.DictWriter.writerow with extrasaction='raise': a key outside fieldnames
\* raises ValueError.
Writable(row) == DOMAIN row \subseteq Range(CSV_FIELDS)

HeaderLine == [ kind |-> "header", fields |-> CSV_FIELDS ]

RowLine(row) == [ kind |-> "row", fields |-> CSV_FIELDS, data |-> row ]

\* Line 173: the sleep after failed attempt number a (0-based).
RetryWait(a) == REQUEST_DELAY * (a + 1)

\* Variant: the sleep is made after the last attempt too.
MoreAttemptsAlways(a, max) == a < max

\* Line 172: not the last attempt.
MoreAttempts(a, max) == a < max - 1

(***************************************************************************)
(* Detail pipeline: main() and fetch_product_data as a state machine        *)
(***************************************************************************)
SearchIdle ==
    /\ s_env_key = FALSE /\ s_dotenv = "absent" /\ s_keywords_file = None
    /\ s_pc = "idle" /\ s_api_key = FALSE /\ keywords = <<>> /\ kw = 0 /\ page = 0
    /\ first_write = TRUE /\ total_products = 0 /\ s_out = None
    /\ s_requests = <<>> /\ s_rows = <<>>
    /\ s_out_before = None
    /\ s_slept = 0 /\ s_last_gap = None /\ s_abort = "no"

TextIdle == t_pc = "idle" /\ t_text = None /\ t_result = <<>>

DetailStart ==
    /\ pc = "start" /\ asin_list = <<>> /\ i = 0 /\ success_count = 0
    /\ failed_asins = <<>> /\ remaining_credits = None /\ out_file = None
    /\ attempt = 0 /\ product_data = None /\ reported = None
    /\ write_error = FALSE /\ fetched = <<>> /\ handed = <<>> /\ tries = 0
    /\ last_outcome = "none"
    /\ waits = <<>> /\ quota_seen = None /\ requests = 0 /\ slept = 0
    /\ last_gap = None

InitDetail ==
    /\ env_key \in BOOLEAN
    /\ input_file \in {None} \cup { Some(t) : t \in SeqsUpTo(Alphabet, MaxFileLen) }
    /\ LIMIT \in 0..MaxLimit
    /\ MAX_RETRIES \in 1..MaxRetries
    /\ DetailStart
    /\ SearchIdle
    /\ TextIdle

detail_env == <<env_key, input_file, LIMIT, MAX_RETRIES>>

\* Lines 39-44: without the key main() returns at once.
LoadKey ==
    /\ pc = "start"
    /\ pc' = IF env_key THEN "read" ELSE "done"
    /\ UNCHANGED <<detail_env, asin_list, i, success_count, failed_asins,
                   remaining_credits, out_file, attempt, product_data, reported,
                   write_error, fetched, handed, tries, last_outcome, waits,
                   quota_seen, requests, slept, last_gap>>
    /\ UNCHANGED <<search_vars, text_vars>>

\* Lines 47-60: an unreadable file ends main(); otherwise the list is read and cut
\* to LIMIT.
ReadInput ==
    /\ pc = "read"
    /\ IF input_file = None
       THEN /\ pc' = "done"
            /\ UNCHANGED asin_list
       ELSE /\ asin_list' = ApplyLimit(ReadAsins(input_file[1]), LIMIT)
            /\ pc' = "open"
    /\ UNCHANGED <<detail_env, i, success_count, failed_asins, remaining_credits,
                   out_file, attempt, product_data, reported, write_error, fetched,
                   handed, tries, last_outcome, waits, quota_seen, requests, slept,
                   last_gap>>
    /\ UNCHANGED <<search_vars, text_vars>>

\* Lines 63-71: open(OUTPUT_FILE, 'w'), writeheader, the counters.  open() or the
\* write may raise; the except clause of line 115 then ends main().
OpenOutput ==
    /\ pc = "open"
    /\ \E io_ok \in BOOLEAN :
         IF io_ok
         THEN /\ out_file' = Some(<<HeaderLine>>)
              /\ pc' = "loop"
              /\ UNCHANGED write_error
         ELSE /\ pc' = "done"
              /\ write_error' = TRUE
              /\ UNCHANGED out_file
    /\ i' = 0
    /\ success_count' = 0
    /\ failed_asins' = <<>>
    /\ remaining_credits' = None
    /\ UNCHANGED <<detail_env, asin_list, attempt, product_data, reported, fetched,
                   handed, tries, last_outcome, waits, quota_seen, requests, slept,
                   last_gap>>
    /\ UNCHANGED <<search_vars, text_vars>>

\* Line 73 and line 76: the loop head; the next key is passed to fetch_product_data,
\* or the loop is over.
NextKey ==
    /\ pc = "loop"
    /\ IF i < Len(asin_list)
       THEN /\ fetched' = Append(fetched, asin_list[i + 1])
            /\ attempt' = 0
            /\ tries' = 0
            /\ last_outcome' = "none"
            /\ waits' = <<>>
            /\ pc' = "fetch"
       ELSE /\ pc' = "report"
            /\ UNCHANGED <<fetched, attempt, tries, last_outcome, waits>>
    /\ UNCHANGED <<detail_env, asin_list, i, success_count, failed_asins,
                   remaining_credits, out_file, product_data, reported, write_error,
                   handed, quota_seen, requests, slept, last_gap>>
    /\ UNCHANGED <<search_vars, text_vars>>

\* Lines 121-176: one pass of the retry loop: the request, then either the row is
\* returned, or the failure is printed, the retry sleep is made when this was not
\* the last attempt, and None is returned when it was.
FetchAttempt ==
    /\ pc = "fetch"
    /\ attempt < MAX_RETRIES
    /\ \E r \in Responses :
         /\ requests' = requests + 1
         /\ last_gap' = IF requests = 0 THEN None ELSE Some(slept)
         /\ tries' = tries + 1
         /\ last_outcome' = r.kind
         /\ IF r.kind = "detail"
            THEN /\ product_data' = Some(FetchedRow(asin_list[i + 1], r))
                 /\ quota_seen' = IF r.credits # None THEN r.credits ELSE quota_seen
                 /\ pc' = "handle"
                 /\ slept' = 0
                 /\ UNCHANGED <<attempt, waits>>
            ELSE /\ attempt' = attempt + 1
                 /\ IF MoreAttempts(attempt, MAX_RETRIES)
                    THEN /\ waits' = Append(waits, RetryWait(attempt))
                         /\ slept' = RetryWait(attempt)
                    ELSE /\ slept' = 0
                         /\ UNCHANGED waits
                 /\ IF attempt + 1 < MAX_RETRIES
                    THEN /\ pc' = "fetch"
                         /\ UNCHANGED product_data
                    ELSE /\ pc' = "handle"
                         /\ product_data' = None
                 /\ UNCHANGED quota_seen
    /\ UNCHANGED <<detail_env, asin_list, i, success_count, failed_asins,
                   remaining_credits, out_file, reported, write_error, fetched,
                   handed>>
    /\ UNCHANGED <<search_vars, text_vars>>

\* Lines 78-98: the row is written and counted, or the key is recorded as failed;
\* then the fixed delay.  The call's history (tries, last_outcome, waits)
\* ends here.  writerow may raise (a key outside fieldnames, or the
\* write itself): the except clause of line 115 then ends main().
HandleResult ==
    /\ pc = "handle"
    /\ IF product_data # None
       THEN LET row == DropCredits(product_data[1]) IN
            /\ remaining_credits' = NextCredits(product_data[1], remaining_credits)
            /\ handed' = Append(handed, row)
            /\ \E io_ok \in BOOLEAN :
                 IF io_ok /\ Writable(row)
                 THEN /\ out_file' = Some(Append(out_file[1], RowLine(row)))
                      /\ success_count' = success_count + 1
                      /\ i' = i + 1
                      /\ slept' = slept + REQUEST_DELAY
                      /\ pc' = "loop"
                      /\ UNCHANGED write_error
                 ELSE /\ write_error' = TRUE
                      /\ pc' = "done"
                      /\ UNCHANGED <<out_file, success_count, i, slept>>
            /\ UNCHANGED failed_asins
       ELSE /\ failed_asins' = Append(failed_asins, asin_list[i + 1])
            /\ i' = i + 1
            /\ slept' = slept + REQUEST_DELAY
            /\ pc' = "loop"
            /\ UNCHANGED <<remaining_credits, handed, out_file, success_count,
                           write_error>>
    /\ tries' = 0
    /\ last_outcome' = "none"
    /\ waits' = <<>>
    /\ UNCHANGED <<detail_env, asin_list, attempt, product_data, reported, fetched,
                   quota_seen, requests, last_gap>>
    /\ UNCHANGED <<search_vars, text_vars>>

\* Lines 101-113: the summary.
Report ==
    /\ pc = "report"
    /\ reported' = Some([ total |-> Len(asin_list), success |-> success_count,
                          failed |-> failed_asins, credits |-> remaining_credits ])
    /\ pc' = "done"
    /\ UNCHANGED <<detail_env, asin_list, i, success_count, failed_asins,
                   remaining_credits, out_file, attempt, product_data, write_error,
                   fetched, handed, tries, last_outcome, waits, quota_seen, requests,
                   slept, last_gap>>
    /\ UNCHANGED <<search_vars, text_vars>>

NextDetail ==
    \/ LoadKey
    \/ ReadInput
    \/ OpenOutput
    \/ NextKey
    \/ FetchAttempt
    \/ HandleResult
    \/ Report

SpecDetail == InitDetail /\ [][NextDetail]_vars

(***************************************************************************)
(* Detail pipeline: properties                                              *)
(***************************************************************************)
\* The data rows of the output file (everything after the header line).
DataRows == IF out_file = None THEN <<>> ELSE Tail(out_file[1])

RowAsins == [ k \in 1..Len(DataRows) |-> DataRows[k].data["asin"] ]

\* keys is an order-preserving interleaving of written and failed.
RECURSIVE IsMerge(_, _, _)
IsMerge(keys, written, failed) ==
    IF keys = <<>> THEN written = <<>> /\ failed = <<>>
    ELSE \/ /\ written # <<>>
            /\ Head(written) = Head(keys)
            /\ IsMerge(Tail(keys), Tail(written), failed)
         \/ /\ failed # <<>>
            /\ Head(failed) = Head(keys)
            /\ IsMerge(Tail(keys), written, Tail(failed))

InputKeys == IF input_file = None THEN <<>> ELSE ReadAsins(input_file[1])

AtLoopBoundary == pc \in {"loop", "report"} \/ (pc = "done" /\ reported # None)

IsFailure(kind) == kind \in {"exception", "error_body", "bad_detail"}

\* C3: a run that ends without a write error has processed exactly the first m
\* input keys, m = min(LIMIT, n) for LIMIT > 0 and m = n for LIMIT = 0, each once
\* and in file order; at every loop boundary success_count + len(failed_asins) is
\* the number of keys processed, the data rows written number success_count, and
\* failed_asins holds, in order, exactly the processed keys that got no row.
C3_DetailAccounting ==
    /\ AtLoopBoundary =>
         /\ success_count + Len(failed_asins) = i
         /\ Len(DataRows) = success_count
         /\ fetched = SubSeq(asin_list, 1, i)
         /\ IsMerge(SubSeq(asin_list, 1, i), RowAsins, failed_asins)
    /\ reported # None =>
         LET n == Len(InputKeys)
             m == IF LIMIT > 0 THEN Min(LIMIT, n) ELSE n
         IN  /\ fetched = SubSeq(InputKeys, 1, m)
             /\ reported[1].total = m
             /\ reported[1].success + Len(reported[1].failed) = m

\* A capped run that ended with both a written and a failed key.
C3_Witness ==
    /\ reported # None
    /\ LIMIT > 0
    /\ Len(InputKeys) > LIMIT
    /\ Len(fetched) = LIMIT
    /\ success_count + Len(failed_asins) = LIMIT

ScenarioComma == <<"A", ",", "A">>

ScenarioSpace == <<"A", " ", "A">>

\* C7 as stated: the file `A,A` yields two keys, so without a limit two fetches
\* are made and a fully successful run writes two rows and reports success 2.
C7_Original ==
    (input_file = Some(ScenarioComma) /\ LIMIT = 0 /\ reported # None) =>
        /\ Len(fetched) = 2
        /\ (failed_asins = <<>> => Len(DataRows) = 2 /\ reported[1].success = 2)

\* C7 as amended: the file `A,A` is one whitespace-delimited token, so without a
\* limit exactly one fetch is made, for the key `A,B`, and a fully successful run
\* writes one row and reports success 1; the same two identifiers separated by
\* whitespace yield two keys, two fetches, two rows and success 2.
C7_CommaIsOneKey ==
    /\ (input_file = Some(ScenarioComma) /\ LIMIT = 0 /\ reported # None) =>
          /\ fetched = <<ScenarioComma>>
          /\ (failed_asins = <<>> => Len(DataRows) = 1 /\ reported[1].success = 1)
    /\ (input_file = Some(ScenarioSpace) /\ LIMIT = 0 /\ reported # None) =>
          /\ fetched = << <<"A">>, <<"A">> >>
          /\ (failed_asins = <<>> => Len(DataRows) = 2 /\ reported[1].success = 2)

\* The comma file, no limit, run over with every fetch successful.
C7_Witness ==
    /\ input_file = Some(ScenarioComma)
    /\ LIMIT = 0
    /\ reported # None
    /\ failed_asins = <<>>
    /\ Len(DataRows) = 1

\* C8: every dict handed to writerow has exactly the 18 keys of CSV_FIELDS
\* (remaining_credits never among them), every line of the file is laid out in the
\* order of CSV_FIELDS, and the quota kept for the summary is that of the latest
\* successful response that carried one.
C8_RowSchema ==
    /\ \A k \in 1..Len(handed) :
         /\ DOMAIN handed[k] = Range(CSV_FIELDS)
         /\ Cardinality(DOMAIN handed[k]) = 18
    /\ out_file # None =>
         /\ out_file[1][1] = HeaderLine
         /\ \A k \in 1..Len(DataRows) :
              /\ DataRows[k].kind = "row"
              /\ DataRows[k].fields = HeaderLine.fields
              /\ DOMAIN DataRows[k].data = Range(HeaderLine.fields)
    /\ AtLoopBoundary => remaining_credits = quota_seen
    /\ reported # None => reported[1].credits = quota_seen

\* Two rows written, the later response without a quota counter, the earlier with.
C8_Witness ==
    /\ reported # None
    /\ Len(handed) = 2
    /\ product_data # None
    /\ "remaining_credits" \notin DOMAIN product_data[1]
    /\ remaining_credits # None

\* Attempts of the call under way that failed.
FailedSoFar == IF last_outcome = "detail" THEN tries - 1 ELSE tries

\* The part of C10 that holds as stated: at most R requests per key, the retry
\* sleep REQUEST_DELAY x a after failed attempt a < R only, None returned exactly
\* when all R attempts failed, a single request and no retry sleep for R = 1.
RetryBudget ==
    /\ pc \in {"fetch", "handle"} =>
         /\ tries <= MAX_RETRIES
         /\ Len(waits) = Min(FailedSoFar, MAX_RETRIES - 1)
         /\ \A a \in 1..Len(waits) : waits[a] = REQUEST_DELAY * a
         /\ MAX_RETRIES = 1 => tries <= 1 /\ waits = <<>>
    /\ pc = "handle" =>
         /\ tries >= 1
         /\ (product_data = None) <=> FailedSoFar = MAX_RETRIES

\* C10 as stated: the loop stops at the first response that carries the success
\* payload, and a further attempt is made only after a parse/network failure.
C10_Original ==
    /\ RetryBudget
    /\ (pc = "fetch" /\ tries > 0) => last_outcome = "exception"

\* C10 as amended: the loop stops at the first attempt that returns a row, and a
\* further attempt is made after every failed attempt short of the R-th, whether
\* the request or the parse raised, the body lacked the success payload, or
\* building the row from the payload raised.
C10_RetryLoop ==
    /\ RetryBudget
    /\ (pc = "fetch" /\ tries > 0) => IsFailure(last_outcome) /\ tries < MAX_RETRIES
    /\ pc = "handle" =>
         /\ product_data # None <=> last_outcome = "detail"
         /\ IsFailure(last_outcome) => tries = MAX_RETRIES

\* R = 3: a third attempt is about to follow a body without the success payload,
\* after waits of 1 and 2.
C10_Witness ==
    /\ pc = "fetch"
    /\ MAX_RETRIES = 3
    /\ tries = 2
    /\ last_outcome = "error_body"
    /\ waits = <<REQUEST_DELAY, 2 * REQUEST_DELAY>>

(***************************************************************************)
(* Search pipeline: helpers                                                 *)
(***************************************************************************)
\* The lines a keywords file is made of: blank (its line break only), plain, padded.
KeywordLines == { <<" ">>, <<"h">>, <<" ", "d", " ">> }

\* read_keywords, lines 22-25.
RECURSIVE read_keywords(_)
read_keywords(lines) ==
    IF lines = <<>> THEN <<>>
    ELSE IF Strip(Head(lines)) # <<>>
         THEN <<Strip(Head(lines))>> \o read_keywords(Tail(lines))
         ELSE read_keywords(Tail(lines))

\* Line 31: the offset of a page.
Nao(p) == IF p = 1 THEN 0 ELSE (p - 1) * PAGE_SIZE

SEARCH_FIELDNAMES ==
    << "keyword", "title", "link", "price", "unit", "rating", "reviews",
       "model_number", "brand", "delivery_free", "store_name", "in_stock_quantity" >>

SearchHeaderLine == [ kind |-> "header", fields |-> SEARCH_FIELDNAMES ]

\* The row written for product j of page p of keyword number k (lines 85-100); the
\* product's own cells are stood for by its place <<k, p, j>>.
SearchRow(keyword, k, p, j) ==
    [ kind |-> "row", keyword |-> keyword, product |-> <<k, p, j>> ]

PageRows(keyword, k, p, n) == [ j \in 1..n |-> SearchRow(keyword, k, p, j) ]

\* A file left behind by an earlier run.
StaleFile == << SearchHeaderLine, SearchRow(<<"o">>, 0, 1, 1) >>

\* What a page's response can hold: the number of products ('products' missing or
\* empty is 0) and whether serpapi_pagination is there and has 'next'.
ProductCounts == { 0, PAGE_SIZE }

Paginations == { "absent", "no_next", "next" }

\* save_to_csv, lines 46-102: the file after the call.
save_to_csv(file, rows, append) ==
    IF rows = <<>> THEN file
    ELSE LET file_exists == file # None
             kept == IF append /\ file_exists THEN file[1] ELSE <<>>
             header == IF ~file_exists \/ ~append THEN <<SearchHeaderLine>> ELSE <<>>
         IN  Some(kept \o header \o rows)

\* Variant: only an empty page stops the loop.
StopAfterIgnoringNext(count, pagination) == count = 0

\* Line 133: the break condition.
StopAfter(count, pagination) ==
    pagination = "absent" \/ pagination = "no_next" \/ count = 0

(***************************************************************************)
(* Search pipeline: the script as a state machine                           *)
(***************************************************************************)
DetailIdle ==
    /\ env_key = FALSE /\ input_file = None /\ LIMIT = 0 /\ MAX_RETRIES = 1
    /\ pc = "idle" /\ asin_list = <<>> /\ i = 0 /\ success_count = 0
    /\ failed_asins = <<>> /\ remaining_credits = None /\ out_file = None
    /\ attempt = 0 /\ product_data = None /\ reported = None
    /\ write_error = FALSE /\ fetched = <<>> /\ handed = <<>> /\ tries = 0
    /\ last_outcome = "none" /\ waits = <<>> /\ quota_seen = None /\ requests = 0
    /\ slept = 0 /\ last_gap = None

InitSearch ==
    /\ s_env_key \in BOOLEAN
    /\ s_dotenv \in {"absent", "no_line", "has_line"}
    /\ s_keywords_file \in
          {None} \cup { Some(f) : f \in SeqsUpTo(KeywordLines, MaxKeywordLines) }
    /\ s_out \in {None, Some(StaleFile)}
    /\ s_out_before = s_out
    /\ s_pc = "start" /\ s_api_key = FALSE /\ keywords = <<>> /\ kw = 0 /\ page = 0
    /\ first_write = TRUE /\ total_products = 0
    /\ s_requests = <<>> /\ s_rows = <<>>
    /\ s_slept = 0 /\ s_last_gap = None /\ s_abort = "no"
    /\ DetailIdle
    /\ TextIdle

search_env == <<s_env_key, s_dotenv, s_keywords_file, s_out_before>>

\* Lines 9-19, run at import: the key from the environment, else the scan of .env
\* (open raises when .env is absent; a scan that finds no line leaves api_key None).
S_LoadKey ==
    /\ s_pc = "start"
    /\ IF s_env_key
       THEN s_api_key' = TRUE /\ s_pc' = "main" /\ UNCHANGED s_abort
       ELSE IF s_dotenv = "absent"
            THEN s_abort' = "config" /\ s_pc' = "done" /\ UNCHANGED s_api_key
            ELSE /\ s_api_key' = (s_dotenv = "has_line")
                 /\ s_pc' = "main"
                 /\ UNCHANGED s_abort
    /\ UNCHANGED <<search_env, keywords, kw, page, first_write, total_products,
                   s_out, s_requests, s_rows, s_slept, s_last_gap>>
    /\ UNCHANGED <<detail_vars, text_vars>>

\* Lines 106-113: read_keywords raises when the file cannot be opened.
S_ReadKeywords ==
    /\ s_pc = "main"
    /\ IF s_keywords_file = None
       THEN s_abort' = "config" /\ s_pc' = "done" /\ UNCHANGED <<keywords, kw>>
       ELSE /\ keywords' = read_keywords(s_keywords_file[1])
            /\ kw' = 1
            /\ s_pc' = "keyword"
            /\ UNCHANGED s_abort
    /\ first_write' = TRUE
    /\ UNCHANGED <<search_env, s_api_key, page, total_products, s_out, s_requests,
                   s_rows, s_slept, s_last_gap>>
    /\ UNCHANGED <<detail_vars, text_vars>>

\* Lines 116-120: the head of the keyword loop.
S_NextKeyword ==
    /\ s_pc = "keyword"
    /\ IF kw <= Len(keywords)
       THEN total_products' = 0 /\ page' = 1 /\ s_pc' = "page"
       ELSE s_pc' = "done" /\ UNCHANGED <<total_products, page>>
    /\ UNCHANGED <<search_env, s_api_key, keywords, kw, first_write, s_out,
                   s_requests, s_rows, s_slept, s_last_gap, s_abort>>
    /\ UNCHANGED <<detail_vars, text_vars>>

\* Lines 123-137, the body of the page loop, when search.get_dict() returns: the
\* request, save_to_csv, the break test, and the sleep when the loop goes on.
S_FetchPage ==
    /\ s_pc = "page"
    /\ \E n \in ProductCounts, pagination \in Paginations :
         LET rows == PageRows(keywords[kw], kw, page, n)
             stop == StopAfter(n, pagination)
         IN  /\ s_requests' = Append(s_requests,
                    [ kw |-> kw, page |-> page, nao |-> Nao(page), ok |-> TRUE,
                      n |-> n, next |-> (pagination = "next") ])
             /\ s_last_gap' = IF s_requests = <<>> THEN None ELSE Some(s_slept)
             /\ s_out' = save_to_csv(s_out, rows, ~first_write)
             /\ s_rows' = s_rows \o rows
             /\ first_write' = FALSE
             /\ total_products' = total_products + n
             /\ s_slept' = IF stop THEN 0 ELSE 1
             /\ IF stop \/ page = MAX_PAGES
                THEN kw' = kw + 1 /\ s_pc' = "keyword" /\ UNCHANGED page
                ELSE page' = page + 1 /\ UNCHANGED <<kw, s_pc>>
    /\ UNCHANGED <<search_env, s_api_key, keywords, s_abort>>
    /\ UNCHANGED <<detail_vars, text_vars>>

\* Line 124 when search.get_dict() raises (the request or the JSON parse fails):
\* nothing in the script catches it.
S_FetchRaises ==
    /\ s_pc = "page"
    /\ s_requests' = Append(s_requests,
           [ kw |-> kw, page |-> page, nao |-> Nao(page), ok |-> FALSE,
             n |-> 0, next |-> FALSE ])
    /\ s_last_gap' = IF s_requests = <<>> THEN None ELSE Some(s_slept)
    /\ s_slept' = 0
    /\ s_abort' = "fetch"
    /\ s_pc' = "done"
    /\ UNCHANGED <<search_env, s_api_key, keywords, kw, page, first_write,
                   total_products, s_out, s_rows>>
    /\ UNCHANGED <<detail_vars, text_vars>>

NextSearch ==
    \/ S_LoadKey
    \/ S_ReadKeywords
    \/ S_NextKeyword
    \/ S_FetchPage
    \/ S_FetchRaises

SpecSearch == InitSearch /\ [][NextSearch]_vars

(***************************************************************************)
(* Search pipeline: properties                                              *)
(***************************************************************************)
RequestsOf(k) == { j \in 1..Len(s_requests) : s_requests[j].kw = k }

RowsOf(k) == { j \in 1..Len(s_rows) : s_rows[j].product[1] = k }

\* C1: after a run (with its credential) that wrote at least one row the output
\* file is one header line followed by exactly the rows of this run, whatever the
\* file held before.
C1_FreshFileWithOneHeader ==
    (s_pc = "done" /\ s_abort = "no" /\ s_api_key /\ s_rows # <<>>) =>
        s_out = Some(<<SearchHeaderLine>> \o s_rows)

\* C2: the requests of a keyword are pages 1..n in order, 1 <= n <= 3, each at
\* offset (page - 1) x 24; page p + 1 is requested only when page p returned a
\* product and carried serpapi_pagination.next; a first page of 24 products
\* without next is the keyword's only request and gives it 24 rows.
C2_Pagination ==
    /\ \A j \in 1..Len(s_requests) :
         LET r == s_requests[j] IN
         /\ r.page \in 1..3
         /\ r.nao = (r.page - 1) * 24
         /\ j = 1 => r.kw = 1 /\ r.page = 1
         /\ j > 1 =>
              LET q == s_requests[j - 1] IN
              \/ r.kw = q.kw /\ r.page = q.page + 1 /\ q.ok /\ q.n >= 1 /\ q.next
              \/ r.kw = q.kw + 1 /\ r.page = 1
         /\ (r.page = 1 /\ r.ok /\ r.n = 24 /\ ~r.next) =>
              /\ RequestsOf(r.kw) = {j}
              /\ Cardinality(RowsOf(r.kw)) = 24
    /\ s_pc \in {"keyword", "page", "done"} =>
         \A k \in 1..(kw - 1) : RequestsOf(k) # {}
    /\ (s_pc = "done" /\ s_abort = "no") =>
         \A k \in 1..Len(keywords) : Cardinality(RequestsOf(k)) \in 1..3

\* A finished run in which one keyword took three pages and another stopped after
\* a first page of 24 products without next.
C2_Witness ==
    /\ s_pc = "done"
    /\ s_abort = "no"
    /\ \E j \in 1..Len(s_requests) : s_requests[j].page = 3
    /\ \E j \in 1..Len(s_requests) :
         /\ s_requests[j].page = 1
         /\ s_requests[j].n = PAGE_SIZE
         /\ ~s_requests[j].next
         /\ Cardinality(RowsOf(s_requests[j].kw)) = PAGE_SIZE

\* C4: a fetch error never ends the run: once the credential and the keywords are
\* read, every keyword is searched before the script ends.
C4_FetchErrorNeverAborts ==
    (s_pc = "done" /\ s_abort # "config" /\ s_api_key) =>
        \A k \in 1..Len(keywords) : RequestsOf(k) # {}

\* C5: any two consecutive requests of a run (with its credential) are at least
\* REQUEST_DELAY apart.
C5_DelayBetweenRequests ==
    /\ (s_api_key /\ s_last_gap # None) => s_last_gap[1] >= REQUEST_DELAY
    /\ last_gap # None => last_gap[1] >= REQUEST_DELAY

CredentialMissing == ~s_env_key /\ s_dotenv # "has_line"

\* C6: with the credential missing or the input file unreadable, no request is
\* issued and the output file is left as it was.
C6_ConfigErrorsAreFatal ==
    (CredentialMissing \/ s_keywords_file = None) =>
        /\ s_requests = <<>>
        /\ s_out = s_out_before

(***************************************************************************)
(* truncate_text on its own                                                 *)
(***************************************************************************)
TextPatterns == { "letters", "dots" }

CharAt(pattern, k) ==
    IF pattern = "dots" THEN "."
    ELSE IF k % 3 = 0 THEN "a" ELSE IF k % 3 = 1 THEN "b" ELSE "c"

MakeText(pattern, n) == [ k \in 1..n |-> CharAt(pattern, k) ]

InitTruncate ==
    /\ t_text \in {None} \cup
          { Some(MakeText(pattern, n)) : pattern \in TextPatterns, n \in 0..MaxTextLen }
    /\ t_pc = "call"
    /\ t_result = <<>>
    /\ DetailIdle
    /\ SearchIdle

\* Line 151: truncate_text(product.get('description', ''), 1000).
T_Call ==
    /\ t_pc = "call"
    /\ t_result' = truncate_text(t_text, DESCRIPTION_BUDGET)
    /\ t_pc' = "done"
    /\ UNCHANGED t_text
    /\ UNCHANGED <<detail_vars, search_vars>>

NextTruncate == T_Call

SpecTruncate == InitTruncate /\ [][NextTruncate]_vars

\* C9: a description of more than 1000 characters comes back as its first 1000
\* characters followed by "..."; one of at most 1000 characters comes back
\* unchanged, the empty or absent one as the empty string.
C9_Truncate ==
    t_pc = "done" =>
        IF t_text = None THEN t_result = <<>>
        ELSE LET text == t_text[1] IN
             IF Len(text) > 1000
             THEN /\ Len(t_result) = 1003
                  /\ \A k \in 1..1000 : t_result[k] = text[k]
                  /\ \A k \in 1001..1003 : t_result[k] = "."
             ELSE t_result = text

\* A description of 1001 letters has been cut to 1003 characters.
C9_Witness ==
    /\ t_pc = "done"
    /\ t_text # None
    /\ Len(t_text[1]) = 1001
    /\ t_text[1][1001] # "."
    /\ Len(t_result) = 1003

====
